---- MODULE Spec2Model ----
(***************************************************************************)
(* Model of the dense tensor core in src/src/tensor.c.                     *)
(*                                                                         *)
(* C arrays are modelled as functions with domain 0..n-1.  A null pointer  *)
(* is the array with no readable cell (NULL).  Complex numbers are         *)
(* Gaussian integers [re, im].  A read of an uninitialised or              *)
(* out-of-bounds cell yields a value chosen nondeterministically from      *)
(* Garbage.                                                                *)
(***************************************************************************)
EXTENDS Integers, Sequences, FiniteSets, TLC

VARIABLES op, pc, s, t, r, perm, ndim_mult, alpha, pre, status, wcount, reads, calls

vars == <<op, pc, s, t, r, perm, ndim_mult, alpha, pre, status, wcount, reads, calls>>

----------------------------------------------------------------------------
(* Bounds of the model *)

MaxRank == 3
MaxDim == 3
MaxElems == 6
MaxGarbage == 2
MaxLowerRank == 2
MaxLog2Elems == 33

----------------------------------------------------------------------------
(* Arrays and complex numbers *)

Arr(seq) == [i \in 0..(Len(seq) - 1) |-> seq[i + 1]]

Size(a) == Cardinality(DOMAIN a)

NULL == Arr(<<>>)

ArrTail(a) == [i \in 0..(Size(a) - 2) |-> a[i + 1]]

ArrCons(x, a) == [i \in 0..Size(a) |-> IF i = 0 THEN x ELSE a[i - 1]]

Cplx(re, im) == [re |-> re, im |-> im]

Zero == Cplx(0, 0)

One == Cplx(1, 0)

CAdd(a, b) == Cplx(a.re + b.re, a.im + b.im)

CMul(a, b) == Cplx(a.re * b.re - a.im * b.im, a.re * b.im + a.im * b.re)

(* conversion of a size_t to int: the low 32 bits, read as two's complement *)
CastInt(x) ==
    LET lo == x % 65536
        hi == (x \div 65536) % 65536
    IN  IF hi >= 32768 THEN (hi - 65536) * 65536 + lo ELSE hi * 65536 + lo

RECURSIVE CSum(_, _)
CSum(f, n) == IF n <= 0 THEN Zero ELSE CAdd(CSum(f, n - 1), f[n - 1])

Garbage == 0..MaxGarbage

----------------------------------------------------------------------------
(* Helpers declared in util.h and tensor.h *)

RECURSIVE IntProduct(_, _)
IntProduct(x, n) ==
    IF n <= 0 THEN 1 ELSE IntProduct(x, n - 1) * x[n - 1]

NumTensorElements(a) == IntProduct(a.dim, a.ndim)

----------------------------------------------------------------------------
(* Index arithmetic *)

(* IndexToOffset with the update of dimfac left out *)
RECURSIVE IndexToOffsetNoDimfac(_, _, _)
IndexToOffsetNoDimfac(ndim, dim, index) ==
    IF ndim <= 0 THEN 0
    ELSE IndexToOffsetNoDimfac(ndim - 1, dim, index) + index[ndim - 1]

RECURSIVE OffsetLoop(_, _, _, _, _, _)
OffsetLoop(i, ndim, dim, index, offset, dimfac) ==
    IF i >= ndim THEN offset
    ELSE OffsetLoop(i + 1, ndim, dim, index, offset + dimfac * index[i], dimfac * dim[i])

IndexToOffset(ndim, dim, index) == OffsetLoop(0, ndim, dim, index, 0, 1)

RECURSIVE NextIndexLoop(_, _, _, _)
NextIndexLoop(i, ndim, dim, index) ==
    IF i >= ndim THEN index
    ELSE IF index[i] + 1 < dim[i] THEN [index EXCEPT ![i] = @ + 1]
         ELSE NextIndexLoop(i + 1, ndim, dim, [index EXCEPT ![i] = 0])

NextIndex(ndim, dim, index) == NextIndexLoop(0, ndim, dim, index)

----------------------------------------------------------------------------
(* Tensor structure *)

Tensor(ndim, dim, data) == [ndim |-> ndim, dim |-> dim, data |-> data]

(* a tensor_t that no routine has written yet *)
EmptyTensor == Tensor(0, NULL, NULL)

Zeros(n) == [k \in 0..(n - 1) |-> Zero]

(* AllocateTensor: the assertion on nelem aborts; otherwise zero-filled data *)
AllocateTensorOk(ndim, dim) == ndim >= 0 /\ (ndim > 0 => IntProduct(dim, ndim) > 0)

AllocateTensor(ndim, dim) ==
    IF ndim > 0
    THEN Tensor(ndim, [i \in 0..(ndim - 1) |-> dim[i]], Zeros(IntProduct(dim, ndim)))
    ELSE Tensor(ndim, NULL, Zeros(1))

ReshapeTensorOk(ndim, dim, a) == IntProduct(dim, ndim) = NumTensorElements(a)

ReshapeTensor(ndim, dim, a) == Tensor(ndim, [i \in 0..(ndim - 1) |-> dim[i]], a.data)

----------------------------------------------------------------------------
(* Generalized transpose *)

(* the loop below with the roles of i and perm[i] exchanged *)
RECURSIVE ScatterGather(_, _, _, _, _)
ScatterGather(i, n, p, src, dst) ==
    IF i >= n THEN dst
    ELSE ScatterGather(i + 1, n, p, src, [dst EXCEPT ![i] = src[p[i]]])

(* for (i = 0; i < n; i++) dst[perm[i]] = src[i]; *)
RECURSIVE Scatter(_, _, _, _, _)
Scatter(i, n, p, src, dst) ==
    IF i >= n THEN dst
    ELSE Scatter(i + 1, n, p, src, [dst EXCEPT ![p[i]] = src[i]])

PermInRange(p, n) == \A i \in 0..(n - 1) : 0 <= p[i] /\ p[i] < n

(* the copy loop below writing contiguously, the stride ignored *)
RECURSIVE CopyLoopUnitStride(_, _, _, _, _, _, _)
CopyLoopUnitStride(j, n, or, stride, ot, tdata, acc) ==
    IF j >= n THEN acc
    ELSE LET k == or + j
         IN  CopyLoopUnitStride(j + 1, n, or, stride, ot, tdata,
                      IF k \in DOMAIN acc.data
                      THEN [acc EXCEPT !.data[k] = tdata[ot + j], !.wcount[k] = @ + 1]
                      ELSE [acc EXCEPT !.oob = TRUE])

(* main copy loop: r->data[or + j*stride] = t->data[ot + j] *)
RECURSIVE CopyLoop(_, _, _, _, _, _, _)
CopyLoop(j, n, or, stride, ot, tdata, acc) ==
    IF j >= n THEN acc
    ELSE LET k == or + j * stride
         IN  CopyLoop(j + 1, n, or, stride, ot, tdata,
                      IF k \in DOMAIN acc.data
                      THEN [acc EXCEPT !.data[k] = tdata[ot + j], !.wcount[k] = @ + 1]
                      ELSE [acc EXCEPT !.oob = TRUE])

(* outer loop over offsets ot = 0, dim[0], 2 dim[0], ...; the model stops at
   the first write outside r->data, after which the behaviour is undefined *)
RECURSIVE TransposeLoop(_, _, _, _, _, _, _, _)
TransposeLoop(ot, nelem, p, a, rr, stride, index_t, acc) ==
    IF ot >= nelem \/ acc.oob THEN acc
    ELSE LET index_r == Scatter(0, a.ndim, p, index_t, acc.index_r)
             or      == IndexToOffset(rr.ndim, rr.dim, index_r)
             n       == a.dim[0]
             copied  == CopyLoop(0, n, or, stride, ot, a.data, [acc EXCEPT !.index_r = index_r])
             next_t  == ArrCons(index_t[0], NextIndex(a.ndim - 1, ArrTail(a.dim), ArrTail(index_t)))
         IN  TransposeLoop(ot + a.dim[0], nelem, p, a, rr, stride, next_t, copied)

(* TransposeTensor for ndim >= 1; g fills the cells of rdim and h the cells
   of index_r that the code never initialises *)
TransposeTensorRankN(p, a, g, h) ==
    IF ~PermInRange(p, a.ndim)
    THEN [status |-> "assert", r |-> EmptyTensor, wcount |-> NULL, reads |-> {}]
    ELSE LET rdim == Scatter(0, a.ndim, p, a.dim, [k \in 0..(a.ndim - 1) |-> g])
         IN  IF ~AllocateTensorOk(a.ndim, rdim)
             THEN [status |-> "assert", r |-> EmptyTensor, wcount |-> NULL, reads |-> {}]
             ELSE LET rr     == AllocateTensor(a.ndim, rdim)
                      stride == IntProduct(rr.dim, p[0])
                      nelem  == NumTensorElements(a)
                      acc0   == [data    |-> rr.data,
                                 wcount  |-> [k \in DOMAIN rr.data |-> 0],
                                 index_r |-> [k \in 0..(a.ndim - 1) |-> h],
                                 oob     |-> FALSE]
                      fin    == TransposeLoop(0, nelem, p, a, rr, stride,
                                              [k \in 0..(a.ndim - 1) |-> 0], acc0)
                  IN  [status |-> IF fin.oob THEN "undefined" ELSE "ok",
                       r      |-> [rr EXCEPT !.data = fin.data],
                       wcount |-> fin.wcount,
                       reads  |-> {}]

(* TransposeTensor for ndim = 0: perm[0] (line 255) and t->dim[0] (lines 263,
   273) are read although perm has no entry and t->dim is a null pointer;
   g stands for the value read for t->dim[0], h for perm[0] *)
TransposeTensorRank0(p, a, g, h) ==
    LET rr == AllocateTensor(0, NULL)
    IN  IF h <= 0 /\ g = 1
        THEN [status |-> "ok",
              r      |-> [rr EXCEPT !.data[0] = a.data[0]],
              wcount |-> [k \in DOMAIN rr.data |-> 1],
              reads  |-> {"perm[0]", "t->dim[0]"}]
        ELSE [status |-> "undefined",
              r      |-> rr,
              wcount |-> [k \in DOMAIN rr.data |-> 0],
              reads  |-> {"perm[0]", "t->dim[0]"}]

(* TransposeTensor reads a cell it never wrote exactly when ndim = 0 or when
   perm is in range and repeats a value; in every other call the values of
   g and h are immaterial and one value stands for all *)
GarbageFor(p, a) ==
    IF a.ndim = 0 \/ (PermInRange(p, a.ndim)
                        /\ \E i, j \in 0..(a.ndim - 1) : i < j /\ p[i] = p[j])
    THEN Garbage
    ELSE {0}

TransposeTensorResult(p, a, g, h) ==
    IF a.ndim = 0 THEN TransposeTensorRank0(p, a, g, h)
    ELSE TransposeTensorRankN(p, a, g, h)

----------------------------------------------------------------------------
(* Dense kernels (column-major, unit increments) *)

cblas_zdscal(n, a, x) ==
    [k \in DOMAIN x |-> IF k < n THEN Cplx(a * x[k].re, a * x[k].im) ELSE x[k]]

cblas_zaxpy(n, a, x, y) ==
    [k \in DOMAIN y |-> IF k < n THEN CAdd(CMul(a, x[k]), y[k]) ELSE y[k]]

cblas_zdotu_sub(n, x, y) == CSum([i \in 0..(n - 1) |-> CMul(x[i], y[i])], n)

(* y <- a*A^T*x + b*y, A of shape (m, n) with leading dimension lda *)
cblas_zgemv_Trans(m, n, a, A, lda, x, b, y) ==
    [j \in DOMAIN y |->
        IF j < n
        THEN CAdd(CMul(a, CSum([i \in 0..(m - 1) |-> CMul(A[i + lda * j], x[i])], m)),
                  CMul(b, y[j]))
        ELSE y[j]]

(* y <- a*A*x + b*y, A of shape (m, n) with leading dimension lda *)
cblas_zgemv_NoTrans(m, n, a, A, lda, x, b, y) ==
    [i \in DOMAIN y |->
        IF i < m
        THEN CAdd(CMul(a, CSum([j \in 0..(n - 1) |-> CMul(A[i + lda * j], x[j])], n)),
                  CMul(b, y[i]))
        ELSE y[i]]

(* C <- a*A*B + b*C, A of shape (m, k), B of shape (k, n), C of shape (m, n) *)
cblas_zgemm(m, n, k, a, A, lda, B, ldb, b, C, ldc) ==
    [o \in DOMAIN C |->
        IF \E i \in 0..(m - 1), j \in 0..(n - 1) : o = i + ldc * j
        THEN LET j == o \div ldc
                 i == o % ldc
             IN  CAdd(CMul(a, CSum([l \in 0..(k - 1) |-> CMul(A[i + lda * l], B[l + ldb * j])], k)),
                      CMul(b, C[o]))
        ELSE C[o]]

(* A <- a*x*y^T + A, A of shape (m, n) with leading dimension lda *)
cblas_zgeru(m, n, a, x, y, A, lda) ==
    [o \in DOMAIN A |->
        IF \E i \in 0..(m - 1), j \in 0..(n - 1) : o = i + lda * j
        THEN CAdd(CMul(a, CMul(x[o % lda], y[o \div lda])), A[o])
        ELSE A[o]]

----------------------------------------------------------------------------
(* Operations on tensors *)

(* geometric sum of IdentityTensor: stride = 1 + n + n*n + ... (ndim terms) *)
RECURSIVE IdentityStride(_, _)
IdentityStride(n, ndim) == IF ndim <= 1 THEN 1 ELSE 1 + n * IdentityStride(n, ndim - 1)

IdentityTensor(a) ==
    LET n      == a.dim[0]
        dp     == n^(a.ndim - 1)
        stride == IdentityStride(n, a.ndim)
    IN  [a EXCEPT !.data = [k \in 0..(n * dp - 1) |->
                               IF \E j \in 0..(n - 1) : k = j * stride THEN One ELSE Zero]]

(* MoveTensorData(src, dst): the pair <<src, dst>> after the call *)
MoveTensorData(src, dst) ==
    [src |-> [src EXCEPT !.dim = NULL, !.data = NULL],
     dst |-> [dst EXCEPT !.ndim = src.ndim, !.dim = src.dim, !.data = src.data]]

ScaleTensor(a, b) ==
    [status |-> "ok",
     t      |-> [b EXCEPT !.data = cblas_zdscal(CastInt(NumTensorElements(b)), a, b.data)],
     calls  |-> <<[kernel |-> "cblas_zdscal", n |-> CastInt(NumTensorElements(b))]>>]

ScalarMultiplyAddTensor(a, x, y) ==
    LET nelem == NumTensorElements(x)
    IN  IF ~(x.ndim = y.ndim) \/ ~(nelem = NumTensorElements(y))
        THEN [status |-> "assert", t |-> y, calls |-> <<>>]
        ELSE [status |-> "ok",
              t      |-> [y EXCEPT !.data = cblas_zaxpy(CastInt(nelem), a, x.data, y.data)],
              calls  |-> <<[kernel |-> "cblas_zaxpy", n |-> CastInt(nelem)]>>]

ArrDrop(a, n) == [i \in 0..(Size(a) - n - 1) |-> a[i + n]]

MultiplyTensorPre(x, y, m) ==
    /\ m >= 1
    /\ x.ndim >= m /\ y.ndim >= m
    /\ \A i \in 0..(m - 1) : x.dim[x.ndim - m + i] = y.dim[i]

(* the dimensions of r below with the kept axes of t taken from t->dim[0..] *)
MultiplyTensorRdimFromStart(x, y, m) ==
    [i \in 0..(x.ndim + y.ndim - 2 * m - 1) |->
        IF i < x.ndim - m THEN x.dim[i] ELSE y.dim[i - x.ndim + m]]

(* dimensions of new tensor r *)
MultiplyTensorRdim(x, y, m) ==
    [i \in 0..(x.ndim + y.ndim - 2 * m - 1) |->
        IF i < x.ndim - m THEN x.dim[i] ELSE y.dim[i - x.ndim + 2 * m]]

MultiplyTensor(x, y, m) ==
    IF ~MultiplyTensorPre(x, y, m)
    THEN [status |-> "assert", r |-> EmptyTensor, calls |-> <<>>]
    ELSE LET rn     == x.ndim + y.ndim - 2 * m
             rdim   == MultiplyTensorRdim(x, y, m)
             rr     == AllocateTensor(rn, rdim)
             nelemS == NumTensorElements(x)
             nelemT == NumTensorElements(y)
             lds    == nelemS \div IntProduct(ArrDrop(x.dim, x.ndim - m), m)
             ldt    == IntProduct(y.dim, m)
             tdt    == nelemT \div ldt
         IN  IF ~AllocateTensorOk(rn, rdim) \/ ~(lds > 0) \/ ~(ldt > 0)
             THEN [status |-> "assert", r |-> EmptyTensor, calls |-> <<>>]
             ELSE IF lds = 1
             THEN IF tdt = 1
                  THEN IF ~(nelemS = nelemT) \/ ~(NumTensorElements(rr) = 1)
                       THEN [status |-> "assert", r |-> rr, calls |-> <<>>]
                       ELSE [status |-> "ok",
                             r      |-> [rr EXCEPT !.data[0] =
                                             cblas_zdotu_sub(CastInt(nelemS), x.data, y.data)],
                             calls  |-> <<[kernel |-> "cblas_zdotu_sub", n |-> CastInt(nelemS)]>>]
                  ELSE [status |-> "ok",
                        r      |-> [rr EXCEPT !.data =
                                        cblas_zgemv_Trans(CastInt(ldt), CastInt(tdt), One, y.data,
                                                          CastInt(ldt), x.data, Zero, rr.data)],
                        calls  |-> <<[kernel |-> "cblas_zgemv", trans |-> TRUE,
                                      m |-> CastInt(ldt), n |-> CastInt(tdt), lda |-> CastInt(ldt)]>>]
             ELSE IF tdt = 1
                  THEN [status |-> "ok",
                        r      |-> [rr EXCEPT !.data =
                                        cblas_zgemv_NoTrans(CastInt(lds), CastInt(ldt), One, x.data,
                                                            CastInt(lds), y.data, Zero, rr.data)],
                        calls  |-> <<[kernel |-> "cblas_zgemv", trans |-> FALSE,
                                      m |-> CastInt(lds), n |-> CastInt(ldt), lda |-> CastInt(lds)]>>]
                  ELSE [status |-> "ok",
                        r      |-> [rr EXCEPT !.data =
                                        cblas_zgemm(CastInt(lds), CastInt(tdt), CastInt(ldt), One,
                                                    x.data, CastInt(lds), y.data, CastInt(ldt),
                                                    Zero, rr.data, CastInt(lds))],
                        calls  |-> <<[kernel |-> "cblas_zgemm", m |-> CastInt(lds),
                                      n |-> CastInt(tdt), k |-> CastInt(ldt), lda |-> CastInt(lds),
                                      ldb |-> CastInt(ldt), ldc |-> CastInt(lds)]>>]

(* the permutation below with the levels of t placed before those of s *)
KroneckerPermSwapped(n) ==
    [i \in 0..(2 * n - 1) |-> IF i < n THEN 2 * i + 1 ELSE 2 * (i - n)]

(* reorder levels of u: perm[i] = 2i, perm[ndim + i] = 2i + 1 *)
KroneckerPerm(n) ==
    [i \in 0..(2 * n - 1) |-> IF i < n THEN 2 * i ELSE 2 * (i - n) + 1]

(* TensorKroneckerProduct; g and h are handed to the inner TransposeTensor.
   The temporary u is local and deleted before the final reshape. *)
TensorKroneckerProduct(x, y, g, h) ==
    IF ~(x.ndim = y.ndim)
    THEN [status |-> "assert", r |-> EmptyTensor, wcount |-> NULL, reads |-> {}, calls |-> <<>>]
    ELSE LET udim == [i \in 0..(x.ndim + y.ndim - 1) |->
                         IF i < x.ndim THEN x.dim[i] ELSE y.dim[i - x.ndim]]
             u0   == AllocateTensor(x.ndim + y.ndim, udim)
             m    == NumTensorElements(x)
             n    == NumTensorElements(y)
             u    == [u0 EXCEPT !.data = cblas_zgeru(CastInt(m), CastInt(n), One, x.data, y.data,
                                                     u0.data, CastInt(m))]
             p    == KroneckerPerm(x.ndim)
             tr   == TransposeTensorResult(p, u, g, h)
             rdim == [i \in 0..(x.ndim - 1) |-> x.dim[i] * y.dim[i]]
             kc   == <<[kernel |-> "cblas_zgeru", m |-> CastInt(m), n |-> CastInt(n),
                        lda |-> CastInt(m)]>>
         IN  IF ~AllocateTensorOk(x.ndim + y.ndim, udim) \/ ~(NumTensorElements(u0) = m * n)
             THEN [status |-> "assert", r |-> EmptyTensor, wcount |-> NULL, reads |-> {},
                   calls |-> <<>>]
             ELSE IF tr.status # "ok"
             THEN [status |-> tr.status, r |-> tr.r, wcount |-> tr.wcount, reads |-> tr.reads,
                   calls |-> kc]
             ELSE IF ~(\A i \in 0..(x.ndim - 1) : rdim[i] = tr.r.dim[2 * i] * tr.r.dim[2 * i + 1])
                     \/ ~ReshapeTensorOk(x.ndim, rdim, tr.r)
             THEN [status |-> "assert", r |-> tr.r, wcount |-> tr.wcount, reads |-> tr.reads,
                   calls |-> kc]
             ELSE [status |-> "ok", r |-> ReshapeTensor(x.ndim, rdim, tr.r),
                   wcount |-> tr.wcount, reads |-> tr.reads, calls |-> kc]

----------------------------------------------------------------------------
(* Inputs: tensors as a caller allocates and fills them *)

Shapes ==
    UNION {{d \in [0..(n - 1) -> 1..MaxDim] : IntProduct(d, n) <= MaxElems} : n \in 0..MaxRank}

FillS(a) == [a EXCEPT !.data = [k \in DOMAIN a.data |-> Cplx(k + 1, (k % 2) + 1)]]

FillT(a) == [a EXCEPT !.data = [k \in DOMAIN a.data |-> Cplx(k + 1, 0)]]

Eye2 == IdentityTensor(AllocateTensor(2, Arr(<<2, 2>>)))

PauliX == [AllocateTensor(2, Arr(<<2, 2>>)) EXCEPT !.data = Arr(<<Zero, One, One, Zero>>)]

TensorsS == {FillS(AllocateTensor(Size(d), d)) : d \in Shapes} \cup {Eye2}

TensorsT == {FillT(AllocateTensor(Size(d), d)) : d \in Shapes} \cup {PauliX}

Ops == {"TransposeTensor", "MultiplyTensor", "TensorKroneckerProduct", "MoveTensorData",
        "ScalarMultiplyAddTensor", "ScaleTensor"}

Init ==
    /\ op \in Ops
    /\ pc = "call"
    /\ s \in IF op \in {"TransposeTensor", "ScaleTensor"} THEN {EmptyTensor} ELSE TensorsS
    /\ t \in IF op = "MoveTensorData" THEN {EmptyTensor} ELSE TensorsT
    /\ r = EmptyTensor
    /\ perm = NULL
    /\ ndim_mult = 0
    /\ alpha = Zero
    /\ pre = [s |-> s, t |-> t]
    /\ status = "none"
    /\ wcount = NULL
    /\ reads = {}
    /\ calls = <<>>

----------------------------------------------------------------------------
(* One action per library call *)

CallTransposeTensor ==
    /\ pc = "call" /\ op = "TransposeTensor"
    /\ \E p \in [0..(t.ndim - 1) -> (-1)..t.ndim] :
       \E g \in GarbageFor(p, t), h \in GarbageFor(p, t) :
          LET res == TransposeTensorResult(p, t, g, h)
          IN  /\ perm' = p
              /\ r' = res.r
              /\ status' = res.status
              /\ wcount' = res.wcount
              /\ reads' = res.reads
    /\ pc' = "done"
    /\ UNCHANGED <<op, s, t, ndim_mult, alpha, pre, calls>>

CallMultiplyTensor ==
    /\ pc = "call" /\ op = "MultiplyTensor"
    /\ \E m \in 0..MaxRank :
          LET res == MultiplyTensor(s, t, m)
          IN  /\ ndim_mult' = m
              /\ r' = res.r
              /\ status' = res.status
              /\ calls' = res.calls
    /\ pc' = "done"
    /\ UNCHANGED <<op, s, t, perm, alpha, pre, wcount, reads>>

CallTensorKroneckerProduct ==
    /\ pc = "call" /\ op = "TensorKroneckerProduct"
    /\ \E g \in GarbageFor(KroneckerPerm(s.ndim), [ndim |-> 2 * s.ndim]),
          h \in GarbageFor(KroneckerPerm(s.ndim), [ndim |-> 2 * s.ndim]) :
          LET res == TensorKroneckerProduct(s, t, g, h)
          IN  /\ r' = res.r
              /\ status' = res.status
              /\ wcount' = res.wcount
              /\ reads' = res.reads
              /\ calls' = res.calls
    /\ pc' = "done"
    /\ UNCHANGED <<op, s, t, perm, ndim_mult, alpha, pre>>

CallMoveTensorData ==
    /\ pc = "call" /\ op = "MoveTensorData"
    /\ LET res == MoveTensorData(s, r)
       IN  /\ s' = res.src
           /\ r' = res.dst
    /\ status' = "ok"
    /\ pc' = "done"
    /\ UNCHANGED <<op, t, perm, ndim_mult, alpha, pre, wcount, reads, calls>>

CallScalarMultiplyAddTensor ==
    /\ pc = "call" /\ op = "ScalarMultiplyAddTensor"
    /\ \E a \in {Cplx(1, 0), Cplx(0, 1), Cplx(2, -1)} :
          LET res == ScalarMultiplyAddTensor(a, s, t)
          IN  /\ alpha' = a
              /\ t' = res.t
              /\ status' = res.status
              /\ calls' = res.calls
    /\ pc' = "done"
    /\ UNCHANGED <<op, s, r, perm, ndim_mult, pre, wcount, reads>>

CallScaleTensor ==
    /\ pc = "call" /\ op = "ScaleTensor"
    /\ \E a \in {-1, 2} :
          LET res == ScaleTensor(a, t)
          IN  /\ alpha' = Cplx(a, 0)
              /\ t' = res.t
              /\ status' = res.status
              /\ calls' = res.calls
    /\ pc' = "done"
    /\ UNCHANGED <<op, s, r, perm, ndim_mult, pre, wcount, reads>>

Next ==
    \/ CallTransposeTensor
    \/ CallMultiplyTensor
    \/ CallTensorKroneckerProduct
    \/ CallMoveTensorData
    \/ CallScalarMultiplyAddTensor
    \/ CallScaleTensor

Spec == Init /\ [][Next]_vars

----------------------------------------------------------------------------
(* Vocabulary of the properties *)

RECURSIVE ISum(_, _)
ISum(f, n) == IF n <= 0 THEN 0 ELSE ISum(f, n - 1) + f[n - 1]

(* column-major offset: sum_k i[k] * prod_{j<k} dim[j] *)
ColMajor(dim, i) == ISum([k \in DOMAIN dim |-> i[k] * IntProduct(dim, k)], Size(dim))

MultiIndices(dim) ==
    {i \in [DOMAIN dim -> 0..(IntProduct(dim, Size(dim)) - 1)] : \A k \in DOMAIN dim : i[k] < dim[k]}

Concat(a, b) == [k \in 0..(Size(a) + Size(b) - 1) |-> IF k < Size(a) THEN a[k] ELSE b[k - Size(a)]]

Take(a, n) == [k \in 0..(n - 1) |-> a[k]]

IsPermutation(p, n) ==
    /\ DOMAIN p = 0..(n - 1)
    /\ \A v \in 0..(n - 1) : \E k \in 0..(n - 1) : p[k] = v

At(a, i) == a.data[ColMajor(a.dim, i)]

RECURSIVE ContractSum(_, _, _, _, _)
ContractSum(B, x, y, a, c) ==
    IF B = {} THEN Zero
    ELSE LET b == CHOOSE b \in B : TRUE
         IN  CAdd(CMul(At(x, Concat(a, b)), At(y, Concat(b, c))),
                  ContractSum(B \ {b}, x, y, a, c))

Done(o) == pc = "done" /\ op = o

----------------------------------------------------------------------------
(* C1: for every tensor t of rank n >= 1 and every permutation perm of
   0..n-1, TransposeTensor yields r with r.ndim = n, r.dim[perm[k]] =
   t.dim[k], r[i'] = t[i] where i'[perm[k]] = i[k] (column-major offsets),
   and every element of r is written exactly once. *)
C1_TransposeContract ==
    (Done("TransposeTensor") /\ t.ndim >= 1 /\ IsPermutation(perm, t.ndim)) =>
        /\ status = "ok"
        /\ r.ndim = t.ndim
        /\ DOMAIN r.dim = 0..(t.ndim - 1)
        /\ \A k \in 0..(t.ndim - 1) : r.dim[perm[k]] = t.dim[k]
        /\ DOMAIN r.data = 0..(NumTensorElements(t) - 1)
        /\ \A i \in MultiIndices(t.dim) :
              LET ip == [j \in 0..(t.ndim - 1) |-> i[CHOOSE k \in 0..(t.ndim - 1) : perm[k] = j]]
              IN  At(r, ip) = At(t, i)
        /\ \A o \in DOMAIN r.data : wcount[o] = 1

C1_Witness ==
    /\ Done("TransposeTensor")
    /\ status = "ok"
    /\ perm = Arr(<<1, 2, 0>>)
    /\ t.dim = Arr(<<1, 2, 3>>)
    /\ r.dim = Arr(<<3, 1, 2>>)

----------------------------------------------------------------------------
(* C2 *)

Lds(x, m) == IntProduct(x.dim, x.ndim - m)

Tdt(y, m) == IntProduct(ArrDrop(y.dim, m), y.ndim - m)

ContractionShape ==
    /\ r.ndim = s.ndim + t.ndim - 2 * ndim_mult
    /\ DOMAIN r.dim = 0..(r.ndim - 1)
    /\ \A i \in 0..(s.ndim - ndim_mult - 1) : r.dim[i] = s.dim[i]
    /\ \A j \in 0..(t.ndim - ndim_mult - 1) : r.dim[s.ndim - ndim_mult + j] = t.dim[ndim_mult + j]
    /\ DOMAIN r.data = 0..(NumTensorElements(r) - 1)

ContractionValues ==
    \A a \in MultiIndices(Take(s.dim, s.ndim - ndim_mult)) :
       \A c \in MultiIndices(ArrDrop(t.dim, ndim_mult)) :
          At(r, Concat(a, c)) = ContractSum(MultiIndices(Take(t.dim, ndim_mult)), s, t, a, c)

InnerProductValue ==
    r.data[0] = CSum([i \in DOMAIN s.data |-> CMul(s.data[i], t.data[i])], Size(s.data))

(* C2 as stated: under the preconditions of MultiplyTensor the result has
   rank p+q-2m, the dimensions of the kept axes and the values
   sum_b S[a,b]*T[b,c] in every dispatch branch, and with LDS = TDT = 1 the
   result is a rank-0 tensor holding sum_i S_i*T_i. *)
C2_Original ==
    (Done("MultiplyTensor") /\ MultiplyTensorPre(s, t, ndim_mult)) =>
        /\ status = "ok"
        /\ ContractionShape
        /\ ContractionValues
        /\ (Lds(s, ndim_mult) = 1 /\ Tdt(t, ndim_mult) = 1) => (r.ndim = 0 /\ InnerProductValue)

(* C2 amended: as above, but with LDS = TDT = 1 the result is a
   single-element tensor of rank p+q-2m (all extents 1; rank 0 exactly when
   p = q = m) whose element is the unconjugated sum_i S_i*T_i. *)
C2_Contraction ==
    (Done("MultiplyTensor") /\ MultiplyTensorPre(s, t, ndim_mult)) =>
        /\ status = "ok"
        /\ ContractionShape
        /\ ContractionValues
        /\ (Lds(s, ndim_mult) = 1 /\ Tdt(t, ndim_mult) = 1) =>
              /\ NumTensorElements(r) = 1
              /\ r.ndim = 0 <=> (s.ndim = ndim_mult /\ t.ndim = ndim_mult)
              /\ InnerProductValue

C2_Witness ==
    /\ Done("MultiplyTensor")
    /\ status = "ok"
    /\ ndim_mult = 1
    /\ s.dim = Arr(<<1, 3>>)
    /\ t.dim = Arr(<<3, 1>>)
    /\ r.dim = Arr(<<1, 1>>)
    /\ calls[1].kernel = "cblas_zdotu_sub"

----------------------------------------------------------------------------
(* C3: for s and t of equal rank n >= 1, TensorKroneckerProduct yields r of
   rank n with r.dim[k] = s.dim[k]*t.dim[k], and the element of r at
   (i_0 + s.dim[0]*j_0, ..., i_{n-1} + s.dim[n-1]*j_{n-1}) equals
   s[i]*t[j]: within each axis the index of s varies fastest. *)
C3_Kronecker ==
    (Done("TensorKroneckerProduct") /\ s.ndim = t.ndim /\ s.ndim >= 1) =>
        /\ status = "ok"
        /\ r.ndim = s.ndim
        /\ DOMAIN r.dim = 0..(s.ndim - 1)
        /\ \A k \in 0..(s.ndim - 1) : r.dim[k] = s.dim[k] * t.dim[k]
        /\ DOMAIN r.data = 0..(NumTensorElements(s) * NumTensorElements(t) - 1)
        /\ \A i \in MultiIndices(s.dim) : \A j \in MultiIndices(t.dim) :
              At(r, [k \in 0..(s.ndim - 1) |-> i[k] + s.dim[k] * j[k]]) = CMul(At(s, i), At(t, j))

C3_Witness ==
    /\ Done("TensorKroneckerProduct")
    /\ status = "ok"
    /\ s.dim = Arr(<<2, 1, 3>>)
    /\ t.dim = Arr(<<1, 3, 2>>)
    /\ r.dim = Arr(<<2, 3, 6>>)

----------------------------------------------------------------------------
(* C4 *)

Real(seq) == [k \in 0..(Len(seq) - 1) |-> Cplx(seq[k + 1], 0)]

C4_Case ==
    /\ Done("TransposeTensor")
    /\ t = Tensor(2, Arr(<<2, 3>>), Real(<<1, 2, 3, 4, 5, 6>>))
    /\ perm = Arr(<<1, 0>>)

(* C4 as stated: perm = (1,0) on the shape-(2,3) tensor with column-major
   data [1,2,3,4,5,6] yields shape (3,2) with data [1,4,2,5,3,6]. *)
C4_Original ==
    C4_Case => (status = "ok" /\ r = Tensor(2, Arr(<<3, 2>>), Real(<<1, 4, 2, 5, 3, 6>>)))

(* C4 amended: perm = (1,0) on the shape-(2,3) tensor with column-major
   data [1,2,3,4,5,6] yields shape (3,2) with column-major data
   [1,3,5,2,4,6]. *)
C4_TransposeExample ==
    C4_Case => (status = "ok" /\ r = Tensor(2, Arr(<<3, 2>>), Real(<<1, 3, 5, 2, 4, 6>>)))

C4_Witness == C4_Case /\ status = "ok" /\ r.dim = Arr(<<3, 2>>)

----------------------------------------------------------------------------
(* C5 *)

C5_Case == Done("TensorKroneckerProduct") /\ s = Eye2 /\ t = PauliX

(* offsets of the entries (row, col) of a 4x4 column-major matrix *)
Entries4(rc) == {e[1] + 4 * e[2] : e \in rc}

(* C5 as stated: the product of S = [[1,0],[0,1]] and T = [[0,1],[1,0]] has
   shape (4,4) and is the block matrix with T in each diagonal block:
   nonzero exactly at (0,1), (1,0), (2,3), (3,2). *)
C5_Original ==
    C5_Case =>
        /\ status = "ok"
        /\ r.ndim = 2 /\ r.dim = Arr(<<4, 4>>)
        /\ \A o \in DOMAIN r.data :
              r.data[o] # Zero <=> o \in Entries4({<<0, 1>>, <<1, 0>>, <<2, 3>>, <<3, 2>>})

(* C5 amended: the product has shape (4,4), zero diagonal 2x2 blocks and
   the identity S in both off-diagonal blocks: the entries at (0,2), (1,3),
   (2,0), (3,1) are 1 and every other entry is 0. *)
C5_KroneckerExample ==
    C5_Case =>
        /\ status = "ok"
        /\ r.ndim = 2 /\ r.dim = Arr(<<4, 4>>)
        /\ DOMAIN r.data = 0..15
        /\ \A o \in DOMAIN r.data :
              r.data[o] = IF o \in Entries4({<<0, 2>>, <<1, 3>>, <<2, 0>>, <<3, 1>>})
                          THEN One ELSE Zero

C5_Witness == C5_Case /\ status = "ok" /\ r.data[8] = One

----------------------------------------------------------------------------
(* C6: after MoveTensorData(src, dst) on an allocated src, dst holds the
   rank, dim buffer and data buffer src held before the call, and src holds
   rank 0 with null dim and data buffers. *)
C6_MovePostcondition ==
    Done("MoveTensorData") =>
        /\ r.ndim = pre.s.ndim /\ r.dim = pre.s.dim /\ r.data = pre.s.data
        /\ s.ndim = 0 /\ s.dim = NULL /\ s.data = NULL

----------------------------------------------------------------------------
(* C7: TransposeTensor reports a precondition violation, producing no
   result, for every perm that is not a permutation of 0..rank-1, whether an
   entry is out of range or a value is repeated. *)
C7_InvalidPermRejected ==
    (Done("TransposeTensor") /\ ~IsPermutation(perm, t.ndim)) =>
        (status = "assert" /\ r = EmptyTensor)

----------------------------------------------------------------------------
(* C8: ScalarMultiplyAddTensor reports a precondition violation, leaving t
   unmodified, whenever s and t differ in rank or in any extent, also when
   the element counts agree. *)
C8_ShapeMismatchRejected ==
    (Done("ScalarMultiplyAddTensor") /\ (pre.s.ndim # pre.t.ndim \/ pre.s.dim # pre.t.dim)) =>
        (status = "assert" /\ t = pre.t)

----------------------------------------------------------------------------
(* C9: TransposeTensor on a rank-0 tensor completes without reading any
   entry of perm or of t.dim and yields a rank-0 r holding t's element. *)
C9_RankZeroTranspose ==
    (Done("TransposeTensor") /\ t.ndim = 0) =>
        /\ status = "ok"
        /\ reads = {}
        /\ r.ndim = 0
        /\ r.data = t.data

----------------------------------------------------------------------------
(* Lowering of sizes to the int arguments of the kernels.

   TLC's integers are 32 bits wide, so a size_t is carried here by its
   base-2 logarithm: every extent is a power of two, a tensor is
   [ndim, ldim] with ldim[k] = log2 of dim[k], products become sums and
   quotients differences.  A size_t product of 2^64 or more wraps to 0.
   Data buffers are left out: the arguments handed to a kernel depend on the
   dimensions only.  A buffer of more than 2^MaxLog2Elems elements is more
   than the allocator can provide. *)

Log2Dims == {0, 1, 15, 16, 31, 32}

RECURSIVE Log2IntProduct(_, _)
Log2IntProduct(ld, n) == IF n <= 0 THEN 0 ELSE Log2IntProduct(ld, n - 1) + ld[n - 1]

Log2NumTensorElements(a) == Log2IntProduct(a.ldim, a.ndim)

(* (int)x for the size_t x = 2^e mod 2^64 *)
CastIntPow2(e) ==
    IF e >= 32 THEN 0 ELSE IF e = 31 THEN (-32768) * 65536 ELSE 2^e

Lowered(e) == [int |-> CastIntPow2(e), log2 |-> e]

(* assert(nelem > 0) and assert(t->data != NULL) of AllocateTensor *)
Log2AllocateTensorOk(e) == e < 64 /\ e <= MaxLog2Elems

LowerTensors ==
    UNION {{[ndim |-> n, ldim |-> d] : d \in {d \in [0..(n - 1) -> Log2Dims] :
                                                Log2IntProduct(d, n) <= MaxLog2Elems}} :
           n \in 0..MaxLowerRank}

LowerOps == {"ScaleTensor", "ScalarMultiplyAddTensor", "MultiplyTensor", "TensorKroneckerProduct"}

InitLowering ==
    /\ op \in LowerOps
    /\ pc = "call"
    /\ s \in IF op = "ScaleTensor" THEN {[ndim |-> 0, ldim |-> NULL]} ELSE LowerTensors
    /\ t \in LowerTensors
    /\ r = EmptyTensor
    /\ perm = NULL
    /\ ndim_mult = 0
    /\ alpha = Zero
    /\ pre = [s |-> s, t |-> t]
    /\ status = "none"
    /\ wcount = NULL
    /\ reads = {}
    /\ calls = <<>>

LowerScaleTensor ==
    /\ pc = "call" /\ op = "ScaleTensor"
    /\ calls' = <<[kernel |-> "cblas_zdscal", args |-> <<Lowered(Log2NumTensorElements(t))>>]>>
    /\ status' = "ok"
    /\ pc' = "done"
    /\ UNCHANGED <<op, s, t, r, perm, ndim_mult, alpha, pre, wcount, reads>>

LowerScalarMultiplyAddTensor ==
    /\ pc = "call" /\ op = "ScalarMultiplyAddTensor"
    /\ LET nelem == Log2NumTensorElements(s)
       IN  IF ~(s.ndim = t.ndim) \/ ~(nelem = Log2NumTensorElements(t))
           THEN status' = "assert" /\ calls' = <<>>
           ELSE /\ status' = "ok"
                /\ calls' = <<[kernel |-> "cblas_zaxpy", args |-> <<Lowered(nelem)>>]>>
    /\ pc' = "done"
    /\ UNCHANGED <<op, s, t, r, perm, ndim_mult, alpha, pre, wcount, reads>>

LowerMultiplyTensor ==
    /\ pc = "call" /\ op = "MultiplyTensor"
    /\ \E m \in 0..MaxLowerRank :
          /\ ndim_mult' = m
          /\ IF ~(/\ m >= 1
                  /\ s.ndim >= m /\ t.ndim >= m
                  /\ \A i \in 0..(m - 1) : s.ldim[s.ndim - m + i] = t.ldim[i])
             THEN status' = "assert" /\ calls' = <<>>
             ELSE LET nelemS == Log2NumTensorElements(s)
                      nelemT == Log2NumTensorElements(t)
                      lds    == nelemS - Log2IntProduct(ArrDrop(s.ldim, s.ndim - m), m)
                      ldt    == Log2IntProduct(t.ldim, m)
                      tdt    == nelemT - ldt
                  IN  IF ~Log2AllocateTensorOk(lds + tdt)
                      THEN status' = "assert" /\ calls' = <<>>
                      ELSE /\ status' = "ok"
                           /\ calls' =
                                IF lds = 0
                                THEN IF tdt = 0
                                     THEN <<[kernel |-> "cblas_zdotu_sub",
                                             args |-> <<Lowered(nelemS)>>]>>
                                     ELSE <<[kernel |-> "cblas_zgemv",
                                             args |-> <<Lowered(ldt), Lowered(tdt), Lowered(ldt)>>]>>
                                ELSE IF tdt = 0
                                     THEN <<[kernel |-> "cblas_zgemv",
                                             args |-> <<Lowered(lds), Lowered(ldt), Lowered(lds)>>]>>
                                     ELSE <<[kernel |-> "cblas_zgemm",
                                             args |-> <<Lowered(lds), Lowered(tdt), Lowered(ldt),
                                                        Lowered(lds), Lowered(ldt), Lowered(lds)>>]>>
    /\ pc' = "done"
    /\ UNCHANGED <<op, s, t, r, perm, alpha, pre, wcount, reads>>

LowerTensorKroneckerProduct ==
    /\ pc = "call" /\ op = "TensorKroneckerProduct"
    /\ LET m == Log2NumTensorElements(s)
           n == Log2NumTensorElements(t)
       IN  IF ~(s.ndim = t.ndim) \/ ~Log2AllocateTensorOk(m + n)
           THEN status' = "assert" /\ calls' = <<>>
           ELSE /\ status' = "ok"
                /\ calls' = <<[kernel |-> "cblas_zgeru",
                               args |-> <<Lowered(m), Lowered(n), Lowered(m)>>]>>
    /\ pc' = "done"
    /\ UNCHANGED <<op, s, t, r, perm, ndim_mult, alpha, pre, wcount, reads>>

NextLowering ==
    \/ LowerScaleTensor
    \/ LowerScalarMultiplyAddTensor
    \/ LowerMultiplyTensor
    \/ LowerTensorKroneckerProduct

SpecLowering == InitLowering /\ [][NextLowering]_vars

(* the int handed to the kernel is the size it stands for *)
ArgExact(a) == a.log2 <= 30 /\ a.int = 2^(a.log2)

(* C10: every operation that lowers a size to a signed 32-bit kernel
   argument first verifies that the size fits and reports a precondition
   violation otherwise: no kernel is invoked with a count or leading
   dimension that differs from the true size. *)
C10_LoweringChecked ==
    pc = "done" =>
        \A c \in 1..Len(calls) : \A a \in 1..Len(calls[c].args) : ArgExact(calls[c].args[a])

====
